---- MODULE Spec2Model ----
(***************************************************************************)
(* A model of the pastebin package (src/pastebin/__init__.py): the two     *)
(* HTMLParser subclasses that turn API responses into records, and the     *)
(* Pastebin client that issues the requests.                               *)
(*                                                                         *)
(* Representation.                                                         *)
(*  - A Python str made of markup is a tuple of lexemes: the start tag     *)
(*    <a href="u"> is <<"<", "a", " href=u", ">">>, the tag name alone is  *)
(*    <<"a">>.  Slicing [1:-1] is then a real operation on that tuple.     *)
(*  - A response body is the sequence of tokens html.parser.HTMLParser     *)
(*    cuts it into: <<"start", lexemes...>>, <<"end", name>>,              *)
(*    <<"data", text>>.  The tokenizer never yields two adjacent data      *)
(*    tokens, so no body of the model has them.                            *)
(*  - Python None is the empty tuple, any other optional value v is <<v>>. *)
(***************************************************************************)
EXTENDS Integers, Sequences, FiniteSets, TLC

VARIABLES
    live,           \* names bound to a PastebinPasteListParser object
    tups,           \* [name -> self._tups]
    starttag_text,  \* [name -> HTMLParser.__starttag_text]
    rawdata,        \* [name -> HTMLParser.rawdata], the tokens not yet consumed
    scanned,        \* [name -> whether feed() was ever called on the object]
    ret,            \* [name -> outcome of the last call on the object]
    u_live,         \* whether a PastebinUserParser object exists
    user_dict,      \* self._user_dict, an OrderedDict as a sequence of <<key, value>>
    u_starttag_text,
    u_rawdata,
    u_scanned,
    u_ret,
    call,           \* the most recent parser call: object, method, argument
    api_key,        \* Pastebin.api_key
    user_key,       \* Pastebin.user_key
    sent,           \* the requests handed to urlopen, in order
    c_ret           \* outcome of the last Pastebin method call

lvars == <<live, tups, starttag_text, rawdata, scanned, ret>>
uvars == <<u_live, user_dict, u_starttag_text, u_rawdata, u_scanned, u_ret>>
cvars == <<api_key, user_key, sent, c_ret>>
vars == <<lvars, uvars, call, cvars>>

---------------------------------------------------------------------------
(* Python values *)

None == <<>>
Some(x) == <<x>>

\* the row separator the API puts between elements
CRLF == "\r\n"

\* a variant of the slice that keeps the angle brackets: s[:]
Slice_whole(s) == s

\* s[1:-1] on a str of at least two lexemes
Slice_1_m1(s) == SubSeq(s, 2, Len(s) - 1)

---------------------------------------------------------------------------
(* html.parser.HTMLParser, as far as the two subclasses use it *)

IsStart(t) == t[1] = "start"
IsEnd(t) == t[1] = "end"
IsData(t) == t[1] = "data"

\* the text of a start tag as HTMLParser.parse_starttag stores it: "<" ... ">"
StartTagText(t) == <<"<">> \o Tail(t) \o <<">">>

\* PastebinPasteListParser.handle_data: get_starttag_text() is None until the
\* first start tag, and None[1:-1] raises TypeError before the CRLF test.
PasteList_handle_data(acc, stt, data) ==
    IF stt = None
    THEN [exc |-> "TypeError", acc |-> acc]
    ELSE LET tag == Slice_1_m1(stt)
         IN  IF data # CRLF
             THEN [exc |-> "ok", acc |-> Append(acc, <<tag, data>>)]
             ELSE [exc |-> "ok", acc |-> acc]

\* OrderedDict.__setitem__: an existing key keeps its place, a new one goes last
RECURSIVE DictSet(_, _, _)
DictSet(d, k, v) ==
    IF d = <<>> THEN <<<<k, v>>>>
    ELSE IF Head(d)[1] = k THEN <<<<k, v>>>> \o Tail(d)
    ELSE <<Head(d)>> \o DictSet(Tail(d), k, v)

\* PastebinUserParser.handle_data
User_handle_data(acc, stt, data) ==
    IF stt = None
    THEN [exc |-> "TypeError", acc |-> acc]
    ELSE LET tag == Slice_1_m1(stt)
         IN  IF data # CRLF
             THEN [exc |-> "ok", acc |-> DictSet(acc, tag, data)]
             ELSE [exc |-> "ok", acc |-> acc]

\* the handle_data the object's class defines
handle_data(kind, acc, stt, data) ==
    IF kind = "list" THEN PasteList_handle_data(acc, stt, data)
    ELSE User_handle_data(acc, stt, data)

\* One round of the loop of HTMLParser.goahead on token t, from the scanner
\* state st = [exc, acc, stt]: a start tag replaces __starttag_text, an end tag
\* calls the default handle_endtag (nothing), a text node calls handle_data.
\* Once an exception is raised the loop is left: no later token is looked at.
goahead_step(kind, st, t) ==
    IF st.exc # "ok" THEN st
    ELSE IF IsStart(t) THEN [st EXCEPT !.stt = StartTagText(t)]
    ELSE IF IsEnd(t) THEN st
    ELSE LET r == handle_data(kind, st.acc, st.stt, t[2])
         IN  [exc |-> r.exc, acc |-> r.acc, stt |-> st.stt]

\* the loop over tokens lo..hi, left to right (split in halves to keep the
\* evaluation shallow)
RECURSIVE goahead_range(_, _, _, _, _)
goahead_range(kind, st, toks, lo, hi) ==
    IF lo > hi THEN st
    ELSE IF lo = hi THEN goahead_step(kind, st, toks[lo])
    ELSE LET mid == (lo + hi) \div 2
             left == goahead_range(kind, st, toks, lo, mid)
         IN  IF left.exc # "ok" THEN left
             ELSE goahead_range(kind, left, toks, mid + 1, hi)

\* HTMLParser.goahead
goahead(kind, acc, stt, toks) ==
    goahead_range(kind, [exc |-> "ok", acc |-> acc, stt |-> stt], toks, 1, Len(toks))

\* HTMLParser.feed: rawdata grows by the argument and goahead consumes it.
\* goahead stores the unconsumed rest only when it returns, so after an
\* exception rawdata still holds everything.
feed(kind, acc, stt, raw, data) ==
    LET all == raw \o data
        g == goahead(kind, acc, stt, all)
    IN  [exc |-> g.exc, acc |-> g.acc, stt |-> g.stt,
         raw |-> IF g.exc = "ok" THEN <<>> ELSE all]

---------------------------------------------------------------------------
(* PastebinPaste and PastebinPasteListParser *)

\* the group size _get_pastes uses
GroupSize == 10

\* a variant of the constructor that takes date and title in the other order
PastebinPaste_title_first(paste_key, paste_title, paste_date, paste_size, paste_expire_date, paste_private, paste_format_long, paste_format_short, paste_url, paste_hits) ==
    [paste_key |-> paste_key, paste_date |-> paste_date,
     paste_title |-> paste_title, paste_size |-> paste_size,
     paste_expire_date |-> paste_expire_date, paste_private |-> paste_private,
     paste_format_long |-> paste_format_long,
     paste_format_short |-> paste_format_short,
     paste_url |-> paste_url, paste_hits |-> paste_hits]

\* PastebinPaste.__init__: ten positional arguments, one attribute each
PastebinPaste(paste_key, paste_date, paste_title, paste_size, paste_expire_date, paste_private, paste_format_long, paste_format_short, paste_url, paste_hits) ==
    [paste_key |-> paste_key, paste_date |-> paste_date,
     paste_title |-> paste_title, paste_size |-> paste_size,
     paste_expire_date |-> paste_expire_date, paste_private |-> paste_private,
     paste_format_long |-> paste_format_long,
     paste_format_short |-> paste_format_short,
     paste_url |-> paste_url, paste_hits |-> paste_hits]

\* the while loop of _get_pastes; Python indexes from 0, sequences here from 1
RECURSIVE pastes_loop(_, _, _, _)
pastes_loop(t, n_pastes, ind, pastes) ==
    IF ind < n_pastes
    THEN LET paste == PastebinPaste(
                 t[GroupSize * ind + 0 + 1][2], t[GroupSize * ind + 1 + 1][2],
                 t[GroupSize * ind + 2 + 1][2], t[GroupSize * ind + 3 + 1][2],
                 t[GroupSize * ind + 4 + 1][2], t[GroupSize * ind + 5 + 1][2],
                 t[GroupSize * ind + 6 + 1][2], t[GroupSize * ind + 7 + 1][2],
                 t[GroupSize * ind + 8 + 1][2], t[GroupSize * ind + 9 + 1][2])
         IN  pastes_loop(t, n_pastes, ind + 1, Append(pastes, paste))
    ELSE pastes

\* a variant of _get_pastes without the test of an empty _tups
_get_pastes_unguarded(t) ==
    [exc |-> "ok", val |-> pastes_loop(t, Len(t) \div GroupSize, 0, <<>>)]

\* PastebinPasteListParser._get_pastes
_get_pastes(t) ==
    IF t = <<>>
    THEN [exc |-> "AttributeError", val |-> <<>>]
    ELSE [exc |-> "ok", val |-> pastes_loop(t, Len(t) \div GroupSize, 0, <<>>)]

\* a variant of get_pastes that starts every call from an empty _tups
get_pastes_from_empty(t, stt, raw, data) ==
    LET f == feed("list", <<>>, stt, raw, data)
        r == IF f.exc = "ok" THEN _get_pastes(f.acc)
             ELSE [exc |-> f.exc, val |-> <<>>]
    IN  [tups |-> f.acc, stt |-> f.stt, raw |-> f.raw, exc |-> r.exc, val |-> r.val]

\* PastebinPasteListParser.get_pastes as a function of the object's state
get_pastes_of(t, stt, raw, data) ==
    LET f == feed("list", t, stt, raw, data)
        r == IF f.exc = "ok" THEN _get_pastes(f.acc)
             ELSE [exc |-> f.exc, val |-> <<>>]
    IN  [tups |-> f.acc, stt |-> f.stt, raw |-> f.raw, exc |-> r.exc, val |-> r.val]

---------------------------------------------------------------------------
(* PastebinUser and PastebinUserParser *)

\* the keyword parameters of PastebinUser.__init__
UserFields ==
    {"user_name", "user_format_short", "user_expiration", "user_avatar_url",
     "user_private", "user_website", "user_email", "user_location",
     "user_account_type"}

\* the value of keyword k in the mapping, None (the default) when it is absent
KwArg(d, k) ==
    IF \E n \in 1..Len(d) : d[n][1] = <<k>>
    THEN Some(d[CHOOSE n \in 1..Len(d) : d[n][1] = <<k>>][2])
    ELSE None

\* a variant of the constructor that takes website and email in the other order
PastebinUser_email_first(user_name, user_format_short, user_expiration, user_avatar_url, user_private, user_email, user_website, user_location, user_account_type) ==
    [user_name |-> user_name, user_format_short |-> user_format_short,
     user_expiration |-> user_expiration, user_avatar_url |-> user_avatar_url,
     user_private |-> user_private, user_website |-> user_website,
     user_email |-> user_email, user_location |-> user_location,
     user_account_type |-> user_account_type]

\* PastebinUser.__init__: each attribute takes the parameter of its own name
PastebinUser(user_name, user_format_short, user_expiration, user_avatar_url, user_private, user_website, user_email, user_location, user_account_type) ==
    [user_name |-> user_name, user_format_short |-> user_format_short,
     user_expiration |-> user_expiration, user_avatar_url |-> user_avatar_url,
     user_private |-> user_private, user_website |-> user_website,
     user_email |-> user_email, user_location |-> user_location,
     user_account_type |-> user_account_type]

NoUser == [f \in UserFields |-> None]

\* PastebinUserParser._get_user_information: PastebinUser(**self._user_dict);
\* a key that is no parameter name is an unexpected keyword argument.
_get_user_information(d) ==
    IF \E n \in 1..Len(d) : \A k \in UserFields : d[n][1] # <<k>>
    THEN [exc |-> "TypeError", val |-> NoUser]
    ELSE [exc |-> "ok",
          val |-> PastebinUser(
              KwArg(d, "user_name"), KwArg(d, "user_format_short"),
              KwArg(d, "user_expiration"), KwArg(d, "user_avatar_url"),
              KwArg(d, "user_private"), KwArg(d, "user_website"),
              KwArg(d, "user_email"), KwArg(d, "user_location"),
              KwArg(d, "user_account_type"))]

\* PastebinUserParser.get_user_information as a function of the object's state
get_user_information_of(d, stt, raw, data) ==
    LET f == feed("user", d, stt, raw, data)
        r == IF f.exc = "ok" THEN _get_user_information(f.acc)
             ELSE [exc |-> f.exc, val |-> NoUser]
    IN  [dict |-> f.acc, stt |-> f.stt, raw |-> f.raw, exc |-> r.exc, val |-> r.val]

---------------------------------------------------------------------------
(* Inputs: response bodies *)

\* longest body of the unstructured input set
MaxBody == 4
\* most text nodes of a generated paste-list body
MaxEvents == 21

StartToks == {<<"start", "user_name">>, <<"start", "user">>, <<"start", "user_name", " a=1">>}
EndToks == {<<"end", "user_name">>, <<"end", "user">>}
DataToks == {<<"data", "x">>, <<"data", "\n">>, <<"data", CRLF>>}
Tokens == StartToks \cup EndToks \cup DataToks

\* what a tokenizer can yield: no two text nodes in a row
NoAdjacentData(b) == \A k \in 1..(Len(b) - 1) : ~(IsData(b[k]) /\ IsData(b[k + 1]))

\* every token sequence of at most MaxBody tokens
Bodies == {b \in UNION {[1..n -> Tokens] : n \in 0..MaxBody} : NoAdjacentData(b)}

\* the ten element names of one paste in a listing, in the API's order
PasteTags == <<"paste_key", "paste_date", "paste_title", "paste_size", "paste_expire_date", "paste_private", "paste_format_long", "paste_format_short", "paste_url", "paste_hits">>

\* element k of a listing of n elements: its text is "y" when k = mark, else "x".
\* Layout "bare" is the elements alone, all named a; layout "api" is the API's:
\* <paste> CRLF before each group of ten, CRLF after each element, and
\* </paste> CRLF after each complete group.
ListElement(k, mark, layout) ==
    LET text == IF k = mark THEN "y" ELSE "x"
        name == IF layout = "bare" THEN "a" ELSE PasteTags[((k - 1) % GroupSize) + 1]
        core == <<<<"start", name>>, <<"data", text>>, <<"end", name>>>>
        open == IF layout = "api" /\ (k - 1) % GroupSize = 0
                THEN <<<<"start", "paste">>, <<"data", CRLF>>>> ELSE <<>>
        sep == IF layout = "api" THEN <<<<"data", CRLF>>>> ELSE <<>>
        close == IF layout = "api" /\ k % GroupSize = 0
                 THEN <<<<"end", "paste">>, <<"data", CRLF>>>> ELSE <<>>
    IN  open \o core \o sep \o close

\* elements lo..hi, one after the other
RECURSIVE ListRange(_, _, _, _)
ListRange(lo, hi, mark, layout) ==
    IF lo > hi THEN <<>>
    ELSE IF lo = hi THEN ListElement(lo, mark, layout)
    ELSE LET mid == (lo + hi) \div 2
         IN  ListRange(lo, mid, mark, layout) \o ListRange(mid + 1, hi, mark, layout)

ListBody(n, mark, layout) == ListRange(1, n, mark, layout)

PasteListBodies ==
    {ListBody(n, mark, layout) : n \in 0..MaxEvents, mark \in 0..MaxEvents, layout \in {"bare", "api"}}
---------------------------------------------------------------------------
(* State *)

Parsers == {"p1", "p2"}

NoRet == [exc |-> "nocall", val |-> <<>>]
NoUserRet == [exc |-> "nocall", val |-> NoUser]
NoCall == [obj |-> "none", op |-> "none", data |-> <<>>, fresh |-> FALSE]

\* the one api_key of the model's client
DevKey == "dev"

\* what a Pastebin method returned: nothing, bytes, an HTTPResponse with its
\* body (plain text or markup), a list of PastebinPaste, or a PastebinUser
NoVal == [kind |-> "None", bytes |-> "", text |-> "", markup |-> <<>>, pastes |-> <<>>, user |-> NoUser]

Init ==
    /\ live = {}
    /\ tups = [p \in Parsers |-> <<>>]
    /\ starttag_text = [p \in Parsers |-> None]
    /\ rawdata = [p \in Parsers |-> <<>>]
    /\ scanned = [p \in Parsers |-> FALSE]
    /\ ret = [p \in Parsers |-> NoRet]
    /\ u_live = FALSE
    /\ user_dict = <<>>
    /\ u_starttag_text = None
    /\ u_rawdata = <<>>
    /\ u_scanned = FALSE
    /\ u_ret = NoUserRet
    /\ call = NoCall
    /\ api_key = DevKey
    /\ user_key = None
    /\ sent = <<>>
    /\ c_ret = [op |-> "none", exc |-> "nocall", val |-> NoVal]

---------------------------------------------------------------------------
(* PastebinPasteListParser objects *)

\* PastebinPasteListParser(): HTMLParser.__init__ resets the scanner, _tups = []
NewListParser(p) ==
    /\ p \notin live
    /\ live' = live \cup {p}
    /\ tups' = [tups EXCEPT ![p] = <<>>]
    /\ starttag_text' = [starttag_text EXCEPT ![p] = None]
    /\ rawdata' = [rawdata EXCEPT ![p] = <<>>]
    /\ scanned' = [scanned EXCEPT ![p] = FALSE]
    /\ ret' = [ret EXCEPT ![p] = NoRet]
    /\ UNCHANGED <<uvars, call, cvars>>

\* p.get_pastes(data)
get_pastes(p, data) ==
    /\ p \in live
    /\ LET r == get_pastes_of(tups[p], starttag_text[p], rawdata[p], data)
       IN  /\ tups' = [tups EXCEPT ![p] = r.tups]
           /\ starttag_text' = [starttag_text EXCEPT ![p] = r.stt]
           /\ rawdata' = [rawdata EXCEPT ![p] = r.raw]
           /\ ret' = [ret EXCEPT ![p] = [exc |-> r.exc, val |-> r.val]]
    /\ scanned' = [scanned EXCEPT ![p] = TRUE]
    /\ call' = [obj |-> p, op |-> "get_pastes", data |-> data, fresh |-> ~scanned[p]]
    /\ UNCHANGED <<live, uvars, cvars>>

\* p._get_pastes(), called directly
call_get_pastes(p) ==
    /\ p \in live
    /\ ret' = [ret EXCEPT ![p] = _get_pastes(tups[p])]
    /\ call' = [obj |-> p, op |-> "_get_pastes", data |-> <<>>, fresh |-> ~scanned[p]]
    /\ UNCHANGED <<live, tups, starttag_text, rawdata, scanned, uvars, cvars>>

\* the last reference to the object goes away (the local of list_pastes at its
\* return); the name is free again
DropListParser(p) ==
    /\ p \in live
    /\ live' = live \ {p}
    /\ tups' = [tups EXCEPT ![p] = <<>>]
    /\ starttag_text' = [starttag_text EXCEPT ![p] = None]
    /\ rawdata' = [rawdata EXCEPT ![p] = <<>>]
    /\ scanned' = [scanned EXCEPT ![p] = FALSE]
    /\ ret' = [ret EXCEPT ![p] = NoRet]
    /\ call' = IF call.obj = p THEN NoCall ELSE call
    /\ UNCHANGED <<uvars, cvars>>

---------------------------------------------------------------------------
(* The PastebinUserParser object *)

\* PastebinUserParser()
NewUserParser ==
    /\ ~u_live
    /\ u_live' = TRUE
    /\ user_dict' = <<>>
    /\ u_starttag_text' = None
    /\ u_rawdata' = <<>>
    /\ u_scanned' = FALSE
    /\ u_ret' = NoUserRet
    /\ UNCHANGED <<lvars, call, cvars>>

\* u.get_user_information(data)
get_user_information(data) ==
    /\ u_live
    /\ LET r == get_user_information_of(user_dict, u_starttag_text, u_rawdata, data)
       IN  /\ user_dict' = r.dict
           /\ u_starttag_text' = r.stt
           /\ u_rawdata' = r.raw
           /\ u_ret' = [exc |-> r.exc, val |-> r.val]
    /\ u_scanned' = TRUE
    /\ call' = [obj |-> "u", op |-> "get_user_information", data |-> data, fresh |-> ~u_scanned]
    /\ UNCHANGED <<u_live, lvars, cvars>>

\* u._get_user_information(), called directly
call_get_user_information ==
    /\ u_live
    /\ u_ret' = _get_user_information(user_dict)
    /\ call' = [obj |-> "u", op |-> "_get_user_information", data |-> <<>>, fresh |-> ~u_scanned]
    /\ UNCHANGED <<u_live, user_dict, u_starttag_text, u_rawdata, u_scanned, lvars, cvars>>

DropUserParser ==
    /\ u_live
    /\ u_live' = FALSE
    /\ user_dict' = <<>>
    /\ u_starttag_text' = None
    /\ u_rawdata' = <<>>
    /\ u_scanned' = FALSE
    /\ u_ret' = NoUserRet
    /\ call' = IF call.obj = "u" THEN NoCall ELSE call
    /\ UNCHANGED <<lvars, cvars>>

---------------------------------------------------------------------------
(* Spec: one response is parsed at a time, each by a parser made for it, as    *)
(* list_pastes, list_trending_pastes and get_user_information do.             *)

NoParser == live = {} /\ ~u_live

Next ==
    \/ \E p \in Parsers : NoParser /\ NewListParser(p)
    \/ \E p \in live : ~scanned[p] /\ \E data \in Bodies \cup PasteListBodies : get_pastes(p, data)
    \/ \E p \in Parsers : call_get_pastes(p)
    \/ \E p \in Parsers : DropListParser(p)
    \/ NoParser /\ NewUserParser
    \/ u_live /\ ~u_scanned /\ \E data \in Bodies : get_user_information(data)
    \/ call_get_user_information
    \/ DropUserParser

Spec == Init /\ [][Next]_vars
---------------------------------------------------------------------------
(* What a response body says, read off the body itself *)

\* the positions of the text nodes that are no CRLF placeholder, in order
UsableIdx(b) ==
    SelectSeq([k \in 1..Len(b) |-> k], LAMBDA k : IsData(b[k]) /\ b[k][2] # CRLF)

\* their texts, in order
UsableTexts(b) == [n \in 1..Len(UsableIdx(b)) |-> b[UsableIdx(b)[n]][2]]

\* a text node stands before the first start tag
LeadingText(b) ==
    \E k \in 1..Len(b) : IsData(b[k]) /\ \A j \in 1..(k - 1) : ~IsStart(b[j])

\* the last start tag before position k (there is one)
LastStart(b, k) ==
    b[CHOOSE j \in 1..(k - 1) :
          IsStart(b[j]) /\ \A i \in (j + 1)..(k - 1) : ~IsStart(b[i])]

\* the elements open after token t, innermost last: a start tag opens its
\* element, an end tag closes the innermost one when it bears that name
OpenStep(stack, t) ==
    IF IsStart(t) THEN Append(stack, t[2])
    ELSE IF IsEnd(t) /\ stack # <<>> /\ stack[Len(stack)] = t[2]
         THEN SubSeq(stack, 1, Len(stack) - 1)
    ELSE stack

RECURSIVE OpenRange(_, _, _, _)
OpenRange(stack, b, lo, hi) ==
    IF lo > hi THEN stack
    ELSE IF lo = hi THEN OpenStep(stack, b[lo])
    ELSE LET mid == (lo + hi) \div 2
             left == OpenRange(stack, b, lo, mid)
         IN  IF Len(left) >= 0 THEN OpenRange(left, b, mid + 1, hi) ELSE left

\* the elements open at position k
OpenAt(b, k) == OpenRange(<<>>, b, 1, k - 1)

\* the last call was method op on a parser no body had been fed to
FreshCall(op) == call.op = op /\ call.fresh

\* the feed of the last call on list parser p ran to its end
FeedCompleted(p) == rawdata[p] = <<>>

TextsOf(t) == [n \in 1..Len(t) |-> t[n][2]]

---------------------------------------------------------------------------
(* C1 *)

\* C1: when get_pastes scans a body and collects a non-empty sequence of
\* 10*N + r events, it returns exactly N records, record i holding the texts of
\* events 10*i .. 10*i + 9 in the order key, date, title, size, expiration,
\* visibility, format-long, format-short, url, hits; the r trailing events are
\* in no record; and the events are the body's texts other than CRLF, so
\* placeholder nodes change nothing.
C1_PositionalRegroup ==
    \A p \in live :
        (call.obj = p /\ FreshCall("get_pastes") /\ FeedCompleted(p) /\ tups[p] # <<>>)
        => LET e == TextsOf(tups[p])
               N == Len(e) \div GroupSize
           IN  /\ e = UsableTexts(call.data)
               /\ ret[p].exc = "ok"
               /\ Len(ret[p].val) = N
               /\ \A i \in 1..N : \A j \in 1..GroupSize :
                      ret[p].val[i][PasteTags[j]] = e[GroupSize * (i - 1) + j]
               /\ \A i \in 1..N : DOMAIN ret[p].val[i] = {PasteTags[j] : j \in 1..GroupSize}

\* two records and one trailing event, from a body with placeholders, the
\* marked text in the second record
C1_Witness ==
    \E p \in live :
        /\ call.obj = p /\ FreshCall("get_pastes")
        /\ Len(tups[p]) = 2 * GroupSize + 1
        /\ \E k \in 1..Len(call.data) : call.data[k] = <<"data", CRLF>>
        /\ ret[p].exc = "ok" /\ Len(ret[p].val) = 2
        /\ ret[p].val[2].paste_title = "y"

---------------------------------------------------------------------------
(* C2 *)

\* C2 as stated: on a parser that never scanned, the extraction step of either
\* class raises AttributeError.
C2_BothRaise ==
    /\ FreshCall("_get_pastes") => ret[call.obj].exc = "AttributeError"
    /\ FreshCall("_get_user_information") => u_ret.exc = "AttributeError"

\* C2 amended: on a parser that never scanned, _get_pastes raises
\* AttributeError, and _get_user_information returns a PastebinUser with all
\* nine fields unset.
C2_FreshExtract ==
    /\ FreshCall("_get_pastes") =>
           ret[call.obj].exc = "AttributeError" /\ ret[call.obj].val = <<>>
    /\ FreshCall("_get_user_information") =>
           u_ret.exc = "ok" /\ u_ret.val = [f \in UserFields |-> None]

C2_Witness ==
    /\ FreshCall("_get_user_information")
    /\ u_ret.exc = "ok"
    /\ \A f \in UserFields : u_ret.val[f] = None

---------------------------------------------------------------------------
(* C3 *)

\* C3: when get_pastes scans a body that has no usable event, it returns the
\* empty list and does not raise.
C3_ZeroEventsEmptyList ==
    \A p \in live :
        (call.obj = p /\ call.op = "get_pastes" /\ UsableTexts(call.data) = <<>>)
        => ret[p].exc = "ok" /\ ret[p].val = <<>>

---------------------------------------------------------------------------
(* C5 *)

\* C5: a call that scans a body raises nothing but NotReady (AttributeError),
\* whatever the body: get_pastes and get_user_information never raise
\* TypeError.
C5_OnlyNotReady ==
    /\ call.op = "get_pastes" => ret[call.obj].exc \in {"ok", "AttributeError"}
    /\ call.op = "get_user_information" => u_ret.exc \in {"ok", "AttributeError"}

---------------------------------------------------------------------------
(* C8 *)

\* the tags of the entries of the user parser's mapping
DictKeys(d) == {d[n][1] : n \in 1..Len(d)}

\* C8 as stated: the tag paired with a text node is the name of the innermost
\* element open at that node.
C8_InnermostOpen ==
    /\ \A p \in live :
           (call.obj = p /\ FreshCall("get_pastes") /\ FeedCompleted(p))
           => \A n \in 1..Len(tups[p]) :
                  LET open == OpenAt(call.data, UsableIdx(call.data)[n])
                  IN  open # <<>> => tups[p][n][1][1] = open[Len(open)]
    /\ (FreshCall("get_user_information") /\ u_rawdata = <<>>)
           => \A n \in 1..Len(UsableIdx(call.data)) :
                  LET open == OpenAt(call.data, UsableIdx(call.data)[n])
                  IN  open # <<>> => \E key \in DictKeys(user_dict) : key[1] = open[Len(open)]

\* C8 amended: the tag paired with a text node is the text of the most recently
\* seen start tag without its angle brackets (the name and any attributes),
\* whether or not that element is still open.
C8_MostRecentStartTag ==
    /\ \A p \in live :
           (call.obj = p /\ FreshCall("get_pastes") /\ FeedCompleted(p))
           => /\ Len(tups[p]) = Len(UsableIdx(call.data))
              /\ \A n \in 1..Len(tups[p]) :
                     tups[p][n][1] = Tail(LastStart(call.data, UsableIdx(call.data)[n]))
    /\ (FreshCall("get_user_information") /\ u_rawdata = <<>>)
           => DictKeys(user_dict) =
                  {Tail(LastStart(call.data, UsableIdx(call.data)[n])) :
                       n \in 1..Len(UsableIdx(call.data))}

\* a text node after the end of an inner element: paired with the inner tag,
\* while the outer element is the one open
C8_Witness ==
    \E p \in live :
        /\ call.obj = p /\ FreshCall("get_pastes") /\ FeedCompleted(p)
        /\ \E n \in 1..Len(tups[p]) :
               LET open == OpenAt(call.data, UsableIdx(call.data)[n])
               IN  open # <<>> /\ tups[p][n][1] # <<open[Len(open)]>>
                   /\ tups[p][n][1] = <<"user_name">>

---------------------------------------------------------------------------
(* C9 *)

\* C9: a scan records exactly the text nodes that are not CRLF, in document
\* order.
C9_AllButCRLFRecorded ==
    /\ \A p \in live :
           (call.obj = p /\ FreshCall("get_pastes"))
           => TextsOf(tups[p]) = UsableTexts(call.data)
    /\ FreshCall("get_user_information")
           => {user_dict[n][2] : n \in 1..Len(user_dict)} \subseteq
                  {UsableTexts(call.data)[n] : n \in 1..Len(UsableTexts(call.data))}
              /\ (UsableTexts(call.data) # <<>> => user_dict # <<>>)
---------------------------------------------------------------------------
(* SpecUser: user-details responses, each parsed by a PastebinUserParser made *)
(* for it, as Pastebin.get_user_information does.                             *)

\* the nine fields in the order the API sends them
UserFieldSeq == <<"user_name", "user_format_short", "user_expiration", "user_avatar_url", "user_private", "user_website", "user_email", "user_location", "user_account_type">>

\* a text for each field, no two alike
SampleText ==
    [user_name |-> "bob", user_format_short |-> "text", user_expiration |-> "N",
     user_avatar_url |-> "http://x/a.png", user_private |-> "1",
     user_website |-> "http://x", user_email |-> "bob@x", user_location |-> "Oslo",
     user_account_type |-> "0"]

\* the element of field f: absent, empty (<f></f>) or holding the field's text;
\* sep is what the layout puts after each element
UserElement(f, how, sep) ==
    IF how = "absent" THEN <<>>
    ELSE IF how = "empty" THEN <<<<"start", f>>, <<"end", f>>>> \o sep
    ELSE <<<<"start", f>>, <<"data", SampleText[f]>>, <<"end", f>>>> \o sep

RECURSIVE UserRange(_, _, _, _)
UserRange(order, lo, hi, sep) ==
    IF lo > hi THEN <<>>
    ELSE IF lo = hi THEN UserElement(UserFieldSeq[lo], order[lo], sep)
    ELSE LET mid == (lo + hi) \div 2
         IN  UserRange(order, lo, mid, sep) \o UserRange(order, mid + 1, hi, sep)

\* layout "bare": the elements alone; layout "api": the API's, <user> CRLF, each
\* element followed by CRLF, </user>
UserBody(how, layout) ==
    IF layout = "bare" THEN UserRange(how, 1, Len(UserFieldSeq), <<>>)
    ELSE <<<<"start", "user">>, <<"data", CRLF>>>>
         \o UserRange(how, 1, Len(UserFieldSeq), <<<<"data", CRLF>>>>)
         \o <<<<"end", "user">>>>

\* the fields a user may leave blank: the API sends their elements empty
BlankFields == {"user_avatar_url", "user_website", "user_email", "user_location"}

UserInfoBodies ==
    {UserBody(how, layout) :
         how \in {h \in [1..Len(UserFieldSeq) -> {"absent", "empty", "text"}] :
                      \A n \in 1..Len(UserFieldSeq) :
                          h[n] = "empty" => UserFieldSeq[n] \in BlankFields},
         layout \in {"bare", "api"}}

NextUser ==
    \/ NewUserParser
    \/ u_live /\ ~u_scanned /\ \E data \in Bodies \cup UserInfoBodies : get_user_information(data)
    \/ call_get_user_information
    \/ DropUserParser

SpecUser == Init /\ [][NextUser]_vars

---------------------------------------------------------------------------
(* C4 *)

\* the start tag of known field f, without attributes
FieldStart(f) == <<"start", f>>

\* b is a user-details body: its start tags are those of known fields, each at
\* most once and each closed by its end tag after at most one text node, and
\* the wrapper <user>; its text nodes are the fields' texts and, after the
\* first start tag, CRLF placeholders
IsUserInfoBody(b) ==
    /\ \A k \in 1..Len(b) : IsStart(b[k]) =>
           \/ b[k] = <<"start", "user">>
           \/ \E f \in UserFields :
                  /\ b[k] = FieldStart(f)
                  /\ \A j \in 1..Len(b) : b[j] = FieldStart(f) => j = k
                  /\ \/ k + 1 <= Len(b) /\ b[k + 1] = <<"end", f>>
                     \/ k + 2 <= Len(b) /\ IsData(b[k + 1]) /\ b[k + 2] = <<"end", f>>
    /\ \A k \in 1..Len(b) : IsData(b[k]) =>
           \/ b[k][2] = CRLF /\ \E j \in 1..(k - 1) : IsStart(b[j])
           \/ k > 1 /\ \E f \in UserFields : b[k - 1] = FieldStart(f)

\* the known tag names the body contains
TagsIn(b) == {f \in UserFields : \E k \in 1..Len(b) : b[k] = FieldStart(f)}

\* the literal content of the element of f: the text of its text node, the
\* empty text when it has none
LiteralText(b, f) ==
    LET k == CHOOSE k \in 1..Len(b) : b[k] = FieldStart(f)
    IN  IF IsData(b[k + 1]) THEN b[k + 1][2] ELSE ""

\* f's element holds a text node that is no placeholder
HasText(b, f) == f \in TagsIn(b) /\ LiteralText(b, f) \notin {"", CRLF}

---------------------------------------------------------------------------
(* SpecTwo: two PastebinPasteListParser objects, each fed any number of       *)
(* chunks by repeated get_pastes calls.                                       *)

\* most tokens a parser is left holding after a failed feed
MaxRaw == 3

ChunkTokens == {<<"start", "a">>, <<"data", "x">>, <<"data", CRLF>>}

\* the chunks: nothing, one token, or a start tag and its text
Chunks ==
    {<<>>} \cup {<<t>> : t \in ChunkTokens} \cup {<<<<"start", "a">>, <<"data", "x">>>>}

NextTwo ==
    \/ \E p \in Parsers : NewListParser(p)
    \/ \E p \in live : \E data \in Chunks :
           /\ Len(rawdata[p]) + Len(data) <= MaxRaw
           /\ Len(tups[p]) + Len(UsableIdx(data)) <= MaxEvents
           /\ get_pastes(p, data)
    \/ \E p \in live : call_get_pastes(p)

SpecTwo == Init /\ [][NextTwo]_vars

---------------------------------------------------------------------------
(* C10 *)

IsPrefix(s, t) == Len(s) <= Len(t) /\ SubSeq(t, 1, Len(s)) = s

\* C10: as long as a parser object lives, no call shortens or clears its event
\* list; once a call on it has returned records, every later call returns
\* records too and the earlier ones are a prefix of the later; and a call on
\* one object changes nothing of any other object.
C10_AppendOnly ==
    [][/\ \A p \in live \cap live' :
              /\ IsPrefix(tups[p], tups'[p])
              /\ ret[p].exc = "ok" =>
                     ret'[p].exc = "ok" /\ IsPrefix(ret[p].val, ret'[p].val)
       /\ \A p \in Parsers : \A q \in Parsers \ {p} :
              (tups'[p] # tups[p] \/ ret'[p] # ret[p]) =>
                  /\ tups'[q] = tups[q] /\ starttag_text'[q] = starttag_text[q]
                  /\ rawdata'[q] = rawdata[q] /\ ret'[q] = ret[q]]_vars

\* one object has returned two records after many calls, the other, fed less,
\* has returned none
C10_Witness ==
    /\ live = Parsers
    /\ ret["p1"].exc = "ok" /\ Len(ret["p1"].val) = 2 /\ Len(tups["p1"]) = 2 * GroupSize
    /\ ret["p2"].exc = "ok" /\ ret["p2"].val = <<>> /\ Len(tups["p2"]) = 1
    /\ call.op = "get_pastes" /\ ~call.fresh

---------------------------------------------------------------------------
(* The Pastebin client *)

\* most requests of one run
MaxSent == 2

\* the status _request accepts
OkStatus == 200

LOGIN_URL == "https://pastebin.com/api/api_login.php"
POST_URL == "https://pastebin.com/api/api_post.php"

\* `not x` for an optional bytes value: None and b'' are both false
Falsy(x) == x = None \/ x[1] = ""

\* urllib.parse.urlencode of a dict given as its items in insertion order:
\* key=value pairs joined by &, then bytes(...)
RECURSIVE urlencode(_)
urlencode(items) ==
    IF items = <<>> THEN <<>>
    ELSE IF Len(items) = 1 THEN <<items[1][1], "=", items[1][2]>>
    ELSE <<items[1][1], "=", items[1][2], "&">> \o urlencode(Tail(items))

\* what the server answers: a status and a body
Responses(bodies) == {[status |-> st, body |-> b] : st \in {OkStatus, 204, 404}, b \in bodies}

\* Pastebin._request: urlopen raises HTTPError on an error status, and any
\* other status but 200 makes _request raise HTTPException
request_exc(resp) ==
    IF resp.status = OkStatus THEN "ok"
    ELSE IF resp.status >= 400 THEN "HTTPError"
    ELSE "HTTPException"

Request(url, items) == [url |-> url, data |-> urlencode(items)]

Raised(op, exc) == [op |-> op, exc |-> exc, val |-> NoVal]
Returned(op, val) == [op |-> op, exc |-> "ok", val |-> val]

\* Pastebin.login
Pastebin_login(user_name, user_password, resp) ==
    /\ Len(sent) < MaxSent
    /\ sent' = Append(sent, Request(LOGIN_URL,
                   <<<<"api_dev_key", api_key>>, <<"api_user_name", user_name>>,
                     <<"api_user_password", user_password>>>>))
    /\ IF request_exc(resp) = "ok"
       THEN /\ user_key' = Some(resp.body)
            /\ c_ret' = Returned("login", [NoVal EXCEPT !.kind = "bytes", !.bytes = resp.body])
       ELSE /\ user_key' = user_key
            /\ c_ret' = Raised("login", request_exc(resp))
    /\ UNCHANGED <<api_key, lvars, uvars, call>>

\* the dict create_paste builds; paste_format and paste_expire_date stay None
\* and are left out, paste_private is the default 0
paste_items(paste_code, key, paste_name) ==
    <<<<"api_dev_key", api_key>>, <<"api_option", "paste">>, <<"api_paste_code", paste_code>>>>
    \o (IF ~Falsy(key) THEN <<<<"api_user_key", key[1]>>>> ELSE <<>>)
    \o (IF ~Falsy(paste_name) THEN <<<<"api_paste_name", paste_name[1]>>>> ELSE <<>>)
    \o <<<<"api_paste_private", "0">>>>

\* the body of create_paste, under the name op of the method called
create_paste_as(op, paste_code, key, paste_name, resp) ==
    /\ Len(sent) < MaxSent
    /\ sent' = Append(sent, Request(POST_URL, paste_items(paste_code, key, paste_name)))
    /\ c_ret' = IF request_exc(resp) = "ok"
                THEN Returned(op, [NoVal EXCEPT !.kind = "response", !.text = resp.body])
                ELSE Raised(op, request_exc(resp))
    /\ UNCHANGED <<api_key, user_key, lvars, uvars, call>>

\* Pastebin.create_paste
Pastebin_create_paste(paste_code, key, paste_name, resp) ==
    create_paste_as("create_paste", paste_code, key, paste_name, resp)

\* Pastebin.create_logged_in_paste
Pastebin_create_logged_in_paste(paste_code, paste_name, resp) ==
    IF Falsy(user_key)
    THEN /\ c_ret' = Raised("create_logged_in_paste", "AttributeError")
         /\ UNCHANGED <<api_key, user_key, sent, lvars, uvars, call>>
    ELSE create_paste_as("create_logged_in_paste", paste_code, user_key, paste_name, resp)

\* what list_pastes and list_trending_pastes do with the response
list_result(op, parse, resp) ==
    IF request_exc(resp) # "ok" THEN Raised(op, request_exc(resp))
    ELSE IF parse
    THEN LET r == get_pastes_of(<<>>, None, <<>>, resp.body)
         IN  IF r.exc = "ok" THEN Returned(op, [NoVal EXCEPT !.kind = "pastes", !.pastes = r.val])
             ELSE Raised(op, r.exc)
    ELSE Returned(op, [NoVal EXCEPT !.kind = "response", !.markup = resp.body])

\* a variant of list_pastes without the test of user_key; urlencode writes a
\* None value as the text None
list_pastes_unchecked(parse, resp) ==
    /\ Len(sent) < MaxSent
    /\ sent' = Append(sent, Request(POST_URL,
                   <<<<"api_dev_key", api_key>>,
                     <<"api_user_key", IF user_key = None THEN "None" ELSE user_key[1]>>,
                     <<"api_results_limit", "5">>, <<"api_option", "list">>>>))
    /\ c_ret' = list_result("list_pastes", parse, resp)
    /\ UNCHANGED <<api_key, user_key, lvars, uvars, call>>

\* Pastebin.list_pastes, results_limit left at its default 5
Pastebin_list_pastes(parse, resp) ==
    IF Falsy(user_key)
    THEN /\ c_ret' = Raised("list_pastes", "AttributeError")
         /\ UNCHANGED <<api_key, user_key, sent, lvars, uvars, call>>
    ELSE /\ Len(sent) < MaxSent
         /\ sent' = Append(sent, Request(POST_URL,
                        <<<<"api_dev_key", api_key>>, <<"api_user_key", user_key[1]>>,
                          <<"api_results_limit", "5">>, <<"api_option", "list">>>>))
         /\ c_ret' = list_result("list_pastes", parse, resp)
         /\ UNCHANGED <<api_key, user_key, lvars, uvars, call>>

\* Pastebin.list_trending_pastes
Pastebin_list_trending_pastes(parse, resp) ==
    /\ Len(sent) < MaxSent
    /\ sent' = Append(sent, Request(POST_URL,
                   <<<<"api_dev_key", api_key>>, <<"api_option", "trends">>>>))
    /\ c_ret' = list_result("list_trending_pastes", parse, resp)
    /\ UNCHANGED <<api_key, user_key, lvars, uvars, call>>

\* Pastebin.delete_paste: the method has no parameter, and building the dict
\* reads the name paste_key, which is bound nowhere: NameError
Pastebin_delete_paste ==
    /\ c_ret' = IF Falsy(user_key) THEN Raised("delete_paste", "AttributeError")
                ELSE Raised("delete_paste", "NameError")
    /\ UNCHANGED <<api_key, user_key, sent, lvars, uvars, call>>

\* Pastebin.get_user_information
Pastebin_get_user_information(parse, resp) ==
    IF Falsy(user_key)
    THEN /\ c_ret' = Raised("get_user_information", "AttributeError")
         /\ UNCHANGED <<api_key, user_key, sent, lvars, uvars, call>>
    ELSE /\ Len(sent) < MaxSent
         /\ sent' = Append(sent, Request(POST_URL,
                        <<<<"api_dev_key", api_key>>, <<"api_user_key", user_key[1]>>,
                          <<"api_option", "userdetails">>>>))
         /\ c_ret' =
                IF request_exc(resp) # "ok"
                THEN Raised("get_user_information", request_exc(resp))
                ELSE IF parse
                THEN LET r == get_user_information_of(<<>>, None, <<>>, resp.body)
                     IN  IF r.exc = "ok"
                         THEN Returned("get_user_information", [NoVal EXCEPT !.kind = "user", !.user = r.val])
                         ELSE Raised("get_user_information", r.exc)
                ELSE Returned("get_user_information", [NoVal EXCEPT !.kind = "response", !.markup = resp.body])
         /\ UNCHANGED <<api_key, user_key, lvars, uvars, call>>

\* the bodies the server answers with
LoginBodies == {"", "ukey"}
PasteUrlBodies == {"https://pastebin.com/K1"}
ListingBodies == {<<>>, ListBody(GroupSize, 3, "api"), ListBody(GroupSize + 1, 0, "bare")}
UserDetailBodies ==
    {<<>>, <<<<"data", "Bad API request">>>>,
     UserBody([n \in 1..Len(UserFieldSeq) |-> IF n \in {1, 7} THEN "text" ELSE "absent"], "api")}

NextClient ==
    \/ \E resp \in Responses(LoginBodies) : Pastebin_login("bob", "pw", resp)
    \/ \E key \in {None, Some("ukey")} : \E paste_name \in {None, Some("title")} :
           \E resp \in Responses(PasteUrlBodies) :
               Pastebin_create_paste("code", key, paste_name, resp)
    \/ \E resp \in Responses(PasteUrlBodies) :
           Pastebin_create_logged_in_paste("code", None, resp)
    \/ \E parse \in BOOLEAN : \E resp \in Responses(ListingBodies) :
           Pastebin_list_pastes(parse, resp)
    \/ \E parse \in BOOLEAN : \E resp \in Responses(ListingBodies) :
           Pastebin_list_trending_pastes(parse, resp)
    \/ Pastebin_delete_paste
    \/ \E parse \in BOOLEAN : \E resp \in Responses(UserDetailBodies) :
           Pastebin_get_user_information(parse, resp)

SpecClient == Init /\ [][NextClient]_vars

---------------------------------------------------------------------------
(* C6 *)

LoginRequired == {"create_logged_in_paste", "list_pastes", "delete_paste", "get_user_information"}

\* C6: user_key changes in login only and api_key never; a login-requiring
\* method called while user_key is None or empty raises AttributeError, sends
\* no request and leaves both keys alone; so such a method sends a request only
\* when a login has stored a non-empty user_key before.
C6_LoginFirst ==
    [][/\ user_key' # user_key => c_ret'.op = "login" /\ c_ret'.exc = "ok"
       /\ api_key' = api_key
       /\ (c_ret'.op \in LoginRequired /\ Falsy(user_key)) =>
              /\ c_ret'.exc = "AttributeError"
              /\ sent' = sent /\ user_key' = user_key
       /\ (sent' # sent /\ c_ret'.op \in LoginRequired) =>
              /\ ~Falsy(user_key)
              /\ \E n \in 1..Len(sent) : sent[n].url = LOGIN_URL]_vars

\* a login stored the empty key, and the next login-requiring call was refused
\* without a request
C6_Witness ==
    /\ user_key = Some("")
    /\ c_ret.op \in LoginRequired /\ c_ret.exc = "AttributeError"
    /\ Len(sent) = 1 /\ sent[1].url = LOGIN_URL

---------------------------------------------------------------------------
(* C7 *)

\* the value of key k in an encoded request body
FormValue(data, k) ==
    IF \E n \in 1..(Len(data) - 2) : data[n] = k /\ data[n + 1] = "="
    THEN Some(data[(CHOOSE n \in 1..(Len(data) - 2) : data[n] = k /\ data[n + 1] = "=") + 2])
    ELSE None

\* C7: with a user_key stored by login, delete_paste returns the response to a
\* request it sent with api_option delete, the api key, the user key and a
\* paste key.
C7_DeleteSends ==
    (c_ret.op = "delete_paste" /\ ~Falsy(user_key))
    => /\ c_ret.exc = "ok"
       /\ sent # <<>>
       /\ LET d == sent[Len(sent)].data
          IN  /\ FormValue(d, "api_option") = Some("delete")
              /\ FormValue(d, "api_dev_key") = Some(api_key)
              /\ FormValue(d, "api_user_key") = user_key
              /\ FormValue(d, "api_paste_key") # None
====
